---------------------------- MODULE Spec2Model ----------------------------
(***************************************************************************)
(* A model of robocrys: the mineral matcher (robocrys/mineral.py) and the  *)
(* describer (robocrys/description.py).                                    *)
(*                                                                         *)
(* Conventions.                                                            *)
(*  - A text is a sequence of tokens (strings); the text itself is the     *)
(*    concatenation of its tokens.  Every blank of the text is a token of  *)
(*    its own, Sp, and every sentence-ending period is the token ".".      *)
(*  - The module is ASCII: the Angstrom sign is written "A" and the en     *)
(*    dash of the bond templates is written "-".                           *)
(*  - Fingerprint distances, likenesses and the distorted tolerance are    *)
(*    in tenths (0.4 is 4); bond lengths are in 1e-4 Angstrom.             *)
(*  - Python's None is the string NoneValue where a string is expected    *)
(*    and the empty sequence where a list is expected (both are falsy, as  *)
(*    None is).                                                            *)
(***************************************************************************)
EXTENDS Integers, Sequences, FiniteSets, TLC

VARIABLES
    query,          \* the structure the matcher is asked about, with the prototypes it fits
    structure_,     \* MineralMatcher.structure_ (NoStructure: attribute not set)
    mineral_db_,    \* MineralMatcher.mineral_db_ (<<>>: attribute not set)
    matches,        \* the three match lists of the last get_best_mineral_name
    best,           \* what the last get_best_mineral_name returned
    ret,            \* what the last get_aflow_matches / get_fingerprint_matches returned
    cfg,            \* the Describer's fields, set by __init__
    hash_seed,      \* the interpreter's hash seed, which orders a set's iteration
    cs,             \* the condensed structure of the last describe() call
    out,            \* what the last describe() call did
    bond_in,        \* the arguments of the last _get_bond_length_description call
    bond_out,       \* what that call returned
    adapter_in,     \* the adapter's sites and the arguments of contains_geometry_type
    adapter_out     \* what contains_geometry_type returned

vars == <<query, structure_, mineral_db_, matches, best, ret, cfg, hash_seed, cs, out,
          bond_in, bond_out, adapter_in, adapter_out>>

matcherVars == <<query, structure_, mineral_db_, matches, best, ret>>
describerVars == <<cfg, hash_seed, cs, out>>
bondVars == <<bond_in, bond_out>>
adapterVars == <<adapter_in, adapter_out>>

NoneValue == "None"
Sp == " "

(***************************************************************************)
(* Bounds of the model.                                                    *)
(***************************************************************************)
NumMinerals == 3
MaxDists == 3
MaxNeighbours == 2
MaxInequiv == 2
MaxAdapterSites == 2

(***************************************************************************)
(* Sequence helpers.                                                       *)
(***************************************************************************)
RECURSIVE SelectRows(_, _)
\* the entries of sequence s at the indices in keep, in s's order
SelectRows(s, keep) ==
    IF s = <<>> THEN <<>>
    ELSE LET n == Len(s)
             front == SelectRows(SubSeq(s, 1, n - 1), keep)
         IN IF n \in keep THEN Append(front, s[n]) ELSE front

RECURSIVE Flatten(_)
Flatten(ss) ==
    IF ss = <<>> THEN <<>> ELSE Head(ss) \o Flatten(Tail(ss))

Range(s) == {s[i] : i \in DOMAIN s}

(***************************************************************************)
(* MineralMatcher                                                          *)
(***************************************************************************)
MineralRows == 1..NumMinerals

\* the database loaded by __init__: one row per mineral, with its number of
\* species types
mineral_db ==
    [i \in MineralRows |-> [mineral |-> "M" \o ToString(i),
                            ntypesp |-> 1 + (i % 2)]]

\* distances a fingerprint comparison can give (tenths): two below the
\* cutoff and the cutoff itself
DistValues == {2, 3, 4}

\* a structure, as far as the matcher reads it: its number of species types
\* and its fingerprint's distance to each row of the database
Structures == [ntypesp : {1, 2}, dist : [MineralRows -> DistValues]]

NoStructure == [ntypesp |-> 0, dist |-> [i \in MineralRows |-> 0]]

DistanceCutoff == 4
DefaultDistance == 10
ExactMatchDistance == -10

\* data = mineral_db.copy(); data['distance'] = ...
DistanceTable(structure) ==
    [i \in MineralRows |-> [mineral  |-> mineral_db[i].mineral,
                            ntypesp  |-> mineral_db[i].ntypesp,
                            distance |-> structure.dist[i]]]

IsSortedByDistance(rows) ==
    \A i, j \in DOMAIN rows : i < j => rows[i].distance <= rows[j].distance

\* data.sort_values(by='distance'): every ascending order of the rows (the
\* sort is not stable, so rows at equal distance come in any order)
SortedTables(structure) ==
    LET data == DistanceTable(structure)
    IN { [i \in MineralRows |-> data[p[i]]] :
           p \in { q \in [MineralRows -> MineralRows] :
                     /\ \A a, b \in MineralRows : a # b => q[a] # q[b]
                     /\ IsSortedByDistance([i \in MineralRows |-> data[q[i]]]) } }

\* CacheHit without the comparison of structures
CacheHitAnyStructure(structure) ==
    structure_ # NoStructure /\ mineral_db_ # <<>>


CacheHit(structure) ==
    structure_ # NoStructure /\ structure_ = structure /\ mineral_db_ # <<>>

\* _set_distance_matrix: keeps the cached ranking on a hit, else ranks anew
SetDistanceMatrix(structure, sorted) ==
    IF CacheHit(structure)
    THEN [structure_ |-> structure_, mineral_db_ |-> mineral_db_]
    ELSE [structure_ |-> structure, mineral_db_ |-> sorted]

GetRowData(row) ==
    [mineral |-> row.mineral, distance |-> row.distance]

\* get_aflow_matches, after _set_distance_matrix: the rows of the ranking
\* whose prototype the structure matcher fits (fits: the row names it fits),
\* in the ranking's order
AflowMatches(db, fits) ==
    LET keep == {i \in DOMAIN db : db[i].mineral \in fits}
        rows == SelectRows(db, keep)
    IN [i \in DOMAIN rows |-> GetRowData(rows[i])]

\* get_fingerprint_matches keeping the rows at the cutoff too
FingerprintMatchesInclusive(db, structure, distance_cutoff, max_n_matches, match_n_sp) ==
    LET filtered == IF match_n_sp
                    THEN SelectRows(db, {i \in DOMAIN db :
                                           db[i].ntypesp = structure.ntypesp})
                    ELSE db
        rows == SelectRows(filtered, {i \in DOMAIN filtered :
                                        filtered[i].distance <= distance_cutoff})
    IN [i \in DOMAIN rows |-> GetRowData(rows[i])]



\* get_fingerprint_matches, after _set_distance_matrix.  max_n_matches = 0
\* stands for None.
FingerprintMatches(db, structure, distance_cutoff, max_n_matches, match_n_sp) ==
    LET filtered == IF match_n_sp
                    THEN SelectRows(db, {i \in DOMAIN db :
                                           db[i].ntypesp = structure.ntypesp})
                    ELSE db
        num_rows == Len(filtered)
        max1 == IF max_n_matches # 0 THEN max_n_matches ELSE num_rows
        max2 == IF max1 > num_rows THEN num_rows ELSE max1
        sliced == SubSeq(filtered, 1, max2)
        rows == SelectRows(sliced, {i \in DOMAIN sliced :
                                      sliced[i].distance < distance_cutoff})
    IN [i \in DOMAIN rows |-> GetRowData(rows[i])]

\* the if/elif chain of get_best_mineral_name; tier names the branch taken
BestMineralSwapped(aflow_matches, fingerprint_matches, fingerprint_derived) ==
    IF fingerprint_matches # <<>>
    THEN [mineral |-> fingerprint_matches[1].mineral,
          distance |-> fingerprint_matches[1].distance,
          n_species_type_match |-> TRUE, tier |-> "fingerprint"]
    ELSE IF aflow_matches # <<>>
    THEN [mineral |-> aflow_matches[1].mineral, distance |-> DefaultDistance,
          n_species_type_match |-> TRUE, tier |-> "prototype"]
    ELSE IF fingerprint_derived # <<>>
    THEN [mineral |-> fingerprint_derived[1].mineral,
          distance |-> fingerprint_derived[1].distance,
          n_species_type_match |-> FALSE, tier |-> "derived"]
    ELSE [mineral |-> NoneValue, distance |-> DefaultDistance,
          n_species_type_match |-> TRUE, tier |-> "none"]

BestMineralLast(aflow_matches, fingerprint_matches, fingerprint_derived) ==
    IF aflow_matches # <<>>
    THEN [mineral |-> aflow_matches[1].mineral, distance |-> DefaultDistance,
          n_species_type_match |-> TRUE, tier |-> "prototype"]
    ELSE IF fingerprint_matches # <<>>
    THEN [mineral |-> fingerprint_matches[Len(fingerprint_matches)].mineral,
          distance |-> fingerprint_matches[Len(fingerprint_matches)].distance,
          n_species_type_match |-> TRUE, tier |-> "fingerprint"]
    ELSE IF fingerprint_derived # <<>>
    THEN [mineral |-> fingerprint_derived[Len(fingerprint_derived)].mineral,
          distance |-> fingerprint_derived[Len(fingerprint_derived)].distance,
          n_species_type_match |-> FALSE, tier |-> "derived"]
    ELSE [mineral |-> NoneValue, distance |-> DefaultDistance,
          n_species_type_match |-> TRUE, tier |-> "none"]

BestMineral(aflow_matches, fingerprint_matches, fingerprint_derived) ==
    IF aflow_matches # <<>>
    THEN [mineral |-> aflow_matches[1].mineral, distance |-> DefaultDistance,
          n_species_type_match |-> TRUE, tier |-> "prototype"]
    ELSE IF fingerprint_matches # <<>>
    THEN [mineral |-> fingerprint_matches[1].mineral,
          distance |-> fingerprint_matches[1].distance,
          n_species_type_match |-> TRUE, tier |-> "fingerprint"]
    ELSE IF fingerprint_derived # <<>>
    THEN [mineral |-> fingerprint_derived[1].mineral,
          distance |-> fingerprint_derived[1].distance,
          n_species_type_match |-> FALSE, tier |-> "derived"]
    ELSE [mineral |-> NoneValue, distance |-> DefaultDistance,
          n_species_type_match |-> TRUE, tier |-> "none"]

NoMatches == [structure |-> NoStructure, aflow_matches |-> <<>>,
              fingerprint_matches |-> <<>>, fingerprint_derived |-> <<>>]
NoBest == [mineral |-> NoneValue, distance |-> 0,
           n_species_type_match |-> FALSE, tier |-> "not called"]

MineralNames == {mineral_db[i].mineral : i \in MineralRows}

\* get_best_mineral_name(structure); fits is the structure matcher's answer
GetBestMineralName(structure, fits) ==
    \E sorted \in SortedTables(structure) :
        LET cache == SetDistanceMatrix(structure, sorted)
            db == cache.mineral_db_
            aflow_matches == AflowMatches(db, fits)
            fingerprint_matches ==
                FingerprintMatches(db, structure, DistanceCutoff, 0, TRUE)
            fingerprint_derived ==
                FingerprintMatches(db, structure, DistanceCutoff, 0, FALSE)
        IN /\ structure_' = cache.structure_
           /\ mineral_db_' = cache.mineral_db_
           /\ matches' = [structure |-> structure,
                          aflow_matches |-> aflow_matches,
                          fingerprint_matches |-> fingerprint_matches,
                          fingerprint_derived |-> fingerprint_derived]
           /\ best' = BestMineral(aflow_matches, fingerprint_matches,
                                  fingerprint_derived)
           /\ UNCHANGED <<ret, describerVars, bondVars, adapterVars>>


NoReturn == [method |-> NoneValue, structure |-> NoStructure, value |-> <<>>]

\* get_aflow_matches(structure); fits is the structure matcher's answer
GetAflowMatches(structure, fits) ==
    \E sorted \in SortedTables(structure) :
        LET cache == SetDistanceMatrix(structure, sorted)
        IN /\ structure_' = cache.structure_
           /\ mineral_db_' = cache.mineral_db_
           /\ ret' = [method |-> "get_aflow_matches", structure |-> structure,
                      value |-> AflowMatches(cache.mineral_db_, fits)]
           /\ UNCHANGED <<matches, best, describerVars, bondVars, adapterVars>>

\* get_fingerprint_matches(structure, match_n_sp=match_n_sp)
GetFingerprintMatches(structure, match_n_sp) ==
    \E sorted \in SortedTables(structure) :
        LET cache == SetDistanceMatrix(structure, sorted)
        IN /\ structure_' = cache.structure_
           /\ mineral_db_' = cache.mineral_db_
           /\ ret' = [method |-> "get_fingerprint_matches",
                      structure |-> structure,
                      value |-> FingerprintMatches(cache.mineral_db_, structure,
                                                   DistanceCutoff, 0,
                                                   match_n_sp)]
           /\ UNCHANGED <<matches, best, describerVars, bondVars, adapterVars>>


(***************************************************************************)
(* The linguistic formatter (inflect.engine) and robocrys.util, as the     *)
(* describer uses them.                                                    *)
(***************************************************************************)
\* a call's outcome: the text it returned, or that it raised; calls lists
\* the _get_site_description calls made on the way
Ok(text) == [raised |-> FALSE, text |-> text, calls |-> <<>>]
Raised == [raised |-> TRUE, text |-> <<>>, calls |-> <<>>]

\* r1's text followed by r2's, unless one of them raised
Then(r1, r2) ==
    IF r1.raised THEN r1
    ELSE IF r2.raised
         THEN [raised |-> TRUE, text |-> <<>>, calls |-> r1.calls \o r2.calls]
         ELSE [raised |-> FALSE, text |-> r1.text \o r2.text,
               calls |-> r1.calls \o r2.calls]

\* the words of ws with one blank between neighbours
RECURSIVE Words(_)
Words(ws) ==
    IF Len(ws) <= 1 THEN ws
    ELSE <<Head(ws), Sp>> \o Words(Tail(ws))

\* en.number_to_words
NumberToWords(n) ==
    CASE n = 0 -> "zero" [] n = 1 -> "one" [] n = 2 -> "two"
      [] n = 3 -> "three" [] n = 4 -> "four" [] n = 5 -> "five"
      [] n = 6 -> "six" [] n = 7 -> "seven" [] n = 8 -> "eight"
      [] n = 9 -> "nine" [] n = 10 -> "ten" [] n = 11 -> "eleven"
      [] n = 12 -> "twelve"

\* str.capitalize() of a number word
Capitalize(w) ==
    CASE w = "zero" -> "Zero" [] w = "one" -> "One" [] w = "two" -> "Two"
      [] w = "three" -> "Three" [] w = "four" -> "Four" [] w = "five" -> "Five"
      [] w = "six" -> "Six" [] w = "the" -> "The" [] w = "each" -> "Each"
      [] OTHER -> w

PluralForm(word) ==
    CASE word = "molecule" -> "molecules" [] word = "direction" -> "directions"
      [] word = "length" -> "lengths" [] word = "cluster" -> "clusters"
      [] word = "ribbon" -> "ribbons" [] word = "sheet" -> "sheets"
      [] word = "framework" -> "frameworks"

\* en.plural(word, count) for a numeric count
Plural(word, count) == IF count = 1 THEN word ELSE PluralForm(word)

\* en.plural(word, count) for a count given as a number word
PluralByWord(word, count_word) ==
    IF count_word = "one" THEN word ELSE PluralForm(word)

\* en.plural_verb('is', count) for a count given as a number word
PluralVerbIs(count_word) == IF count_word = "one" THEN "is" ELSE "are"

\* en.a(phrase): the phrase after its indefinite article
IndefiniteArticle(phrase) ==
    <<IF Head(phrase) \in {"octahedral", "L-shaped"} THEN "an" ELSE "a", Sp>>
        \o phrase

\* en.join(items): "", "a", "a and b", "a, b, and c"
RECURSIVE JoinCommas(_)
JoinCommas(items) ==
    IF Len(items) = 1 THEN <<"and", Sp>> \o Head(items)
    ELSE Head(items) \o <<",", Sp>> \o JoinCommas(Tail(items))

JoinList(items) ==
    CASE Len(items) = 0 -> <<>>
      [] Len(items) = 1 -> items[1]
      [] Len(items) = 2 -> items[1] \o <<Sp, "and", Sp>> \o items[2]
      [] OTHER -> JoinCommas(items)

\* robocrys.util.get_el: the element of a species label
GetEl(label) ==
    CASE label = "Mg2+" -> "Mg" [] label = "O2-" -> "O"
      [] label = "F-" -> "F" [] label = "Cl-" -> "Cl" [] label = "S2-" -> "S"
      [] OTHER -> label

\* '+' in label
HasPlus(label) == label \in {"Mg2+"}

\* robocrys.util.connected_geometries, in its priority order
connected_geometries == <<"tetrahedral", "octahedral">>

\* robocrys.util.dimensionality_to_shape
dimensionality_to_shape(d) ==
    CASE d = 0 -> "cluster" [] d = 1 -> "ribbon" [] d = 2 -> "sheet"
      [] d = 3 -> "framework"

(***************************************************************************)
(* Bond lengths.  A length is a number of 1e-4 Angstrom.  Formatting a     *)
(* float to k decimals rounds its value to the nearest, an exact tie to    *)
(* the even neighbour.                                                     *)
(***************************************************************************)
\* x rounded to the nearest multiple of unit, ties to the even multiple
RoundTo(x, unit) ==
    LET q == x \div unit
        r == x % unit
    IN IF 2 * r < unit THEN q * unit
       ELSE IF 2 * r > unit THEN (q + 1) * unit
       ELSE IF q % 2 = 0 THEN q * unit ELSE (q + 1) * unit

\* x cut down to a multiple of unit
TruncateTo(x, unit) == (x \div unit) * unit

Round3Truncating(d) == TruncateTo(d, 10)

\* float("{:.3f}".format(d)), one entry of _rounded_bond_lengths
Round3(d) == RoundTo(d, 10)

\* _rounded_bond_lengths(data)
RoundedBondLengths(data) == [i \in DOMAIN data |-> Round3(data[i])]

\* "{:.2f}".format(d)
Format2(d) ==
    LET h == RoundTo(d, 100) \div 100
        frac == h % 100
    IN ToString(h \div 100) \o "." \o
       (IF frac < 10 THEN "0" ELSE "") \o ToString(frac)

\* _distance_to_string(distance)
DistanceToString(d) == <<Format2(d), Sp, "A">>

\* _distance_range_to_string(dist_a, dist_b)
DistanceRangeToString(a, b) == <<Format2(a) \o "-" \o Format2(b), Sp, "A">>

SeqMin(s) == CHOOSE x \in Range(s) : \A y \in Range(s) : x <= y
SeqMax(s) == CHOOSE x \in Range(s) : \A y \in Range(s) : x >= y
\* the number of entries of s other than x
CountOfOthers(s, x) == Cardinality({i \in DOMAIN s : s[i] # x})

CountOf(s, x) == Cardinality({i \in DOMAIN s : s[i] = x})

\* the distance list a bond group describes: its flat list, else its
\* inequivalent groups' lists joined
BondDists(bond_data) ==
    IF bond_data.has_dists THEN bond_data.dists
    ELSE Flatten([i \in DOMAIN bond_data.inequiv_groups |->
                     bond_data.inequiv_groups[i].dists])

(***************************************************************************)
(* Describer                                                               *)
(***************************************************************************)
DefaultDistortedTol == 6

\* _get_mineral_description(mineral_data, formula, spg_symbol, crystal_system)
MineralSuffix(mineral_data) ==
    IF ~mineral_data.n_species_type_match THEN "-derived"
    ELSE IF mineral_data.distance >= 0 THEN "-like"
    ELSE ""

MineralDescription(mineral_data, formula, spg_symbol, crystal_system) ==
    (IF mineral_data.type # NoneValue
     THEN Words(<<formula, "is",
                  mineral_data.type \o MineralSuffix(mineral_data),
                  "structured", "and">>)
     ELSE <<formula>>)
    \o <<Sp>> \o Words(<<"crystallizes", "in", "the", crystal_system,
                         spg_symbol, "space", "group">>) \o <<".">>

\* [o for o in set(orientations)]: the distinct labels, in the order the
\* interpreter's hash seed gives the set
\* where a label's hash puts it in a set's table, under hash seed 0
HashSlot(label) ==
    CASE label = "(001)" -> 1 [] label = "(010)" -> 2 [] label = "(100)" -> 3

RECURSIVE SetInOrder(_, _)
SetInOrder(S, seed) ==
    IF S = {} THEN <<>>
    ELSE LET x == IF seed = 0
                  THEN CHOOSE a \in S : \A b \in S : HashSlot(a) <= HashSlot(b)
                  ELSE CHOOSE a \in S : \A b \in S : HashSlot(a) >= HashSlot(b)
         IN <<x>> \o SetInOrder(S \ {x}, seed)

\* the text of one leaf of the dimensionality sentence's component list
DimenComponentDesc(leaf) ==
    LET count == NumberToWords(leaf.comp.count)
        named == IF leaf.comp.has_molecule_name
                 THEN Words(<<count, leaf.comp.molecule_name,
                              Plural("molecule", leaf.comp.count)>>)
                 ELSE Words(<<count, leaf.formula,
                              PluralByWord(
                                  dimensionality_to_shape(leaf.comp_dimen),
                                  count)>>)
        orientations == {leaf.comp.inequiv_components[i].orientation :
                           i \in DOMAIN leaf.comp.inequiv_components}
        ordered == SetInOrder(orientations, hash_seed)
    IN IF leaf.comp_dimen \in {1, 2}
       THEN named \o <<Sp>> \o Words(<<"oriented", "in", "the">>) \o <<Sp>>
            \o JoinList([i \in DOMAIN ordered |-> <<ordered[i]>>])
            \o <<Sp, Plural("direction", Cardinality(orientations))>>
       ELSE named

\* _get_component_dimensionality_description
DimensionalityDescriptionAlwaysLists(dimensionality, component_data, n_components) ==
    <<"The", Sp, "structure", Sp, "is", Sp,
      NumberToWords(dimensionality) \o "-dimensional">>
    \o <<Sp>> \o Words(<<"and", "consists", "of">>) \o <<Sp>>
    \o JoinList([i \in DOMAIN component_data |->
                    DimenComponentDesc(component_data[i])])
    \o <<".">>

DimensionalityDescription(dimensionality, component_data, n_components) ==
    <<"The", Sp, "structure", Sp, "is", Sp,
      NumberToWords(dimensionality) \o "-dimensional">>
    \o (IF n_components = 1 THEN <<".">>
        ELSE <<Sp>> \o Words(<<"and", "consists", "of">>) \o <<Sp>>
             \o JoinList([i \in DOMAIN component_data |->
                             DimenComponentDesc(component_data[i])])
             \o <<".">>)

\* the "{element}-{bond_element}" of the bond templates
BondName(element, bond_element) == GetEl(element) \o "-" \o GetEl(bond_element)

\* the chain of tests of _get_bond_length_description: which sentence a
\* distance list gets ("raise": min() of an empty sequence)
BondLengthCategoryNoSingle(dists) ==
    LET classes == Range(RoundedBondLengths(dists))
    IN IF Cardinality(classes) = 1 THEN "Uniform"
       ELSE IF Cardinality(classes) = 2 THEN "Bimodal"
       ELSE IF dists = <<>> THEN "raise"
       ELSE "Spread"

BondLengthCategory(dists) ==
    LET classes == Range(RoundedBondLengths(dists))
    IN IF Len(dists) = 1 THEN "Single"
       ELSE IF Cardinality(classes) = 1 THEN "Uniform"
       ELSE IF Cardinality(classes) = 2 THEN "Bimodal"
       ELSE IF dists = <<>> THEN "raise"
       ELSE "Spread"

\* _get_bond_length_description(element, bond_element, bond_data)
BondLengthDescription(element, bond_element, bond_data) ==
    LET dists == BondDists(bond_data)
        name == BondName(element, bond_element)
        discrete == RoundedBondLengths(dists)
        small == SeqMin(discrete)
        big == SeqMax(discrete)
        small_count == NumberToWords(CountOf(discrete, small))
        big_count == NumberToWords(CountOf(discrete, big))
        category == BondLengthCategory(dists)
    IN CASE category = "Single" ->
              Ok(Words(<<"The", name, "bond", "length", "is">>) \o <<Sp>>
                 \o DistanceToString(dists[1]) \o <<".">>)
         [] category = "Uniform" ->
              Ok(Words(<<IF Len(discrete) = 2 THEN "Both" ELSE "All", name,
                         "bond", "lengths", "are">>) \o <<Sp>>
                 \o DistanceToString(dists[1]) \o <<".">>)
         [] category = "Bimodal" ->
              Ok(<<"In", Sp, "this", Sp, "arrangement", ",", Sp>>
                 \o Words(<<"there", PluralVerbIs(small_count), small_count,
                            "shorter">>)
                 \o <<Sp, "(">> \o DistanceToString(small) \o <<")", Sp>>
                 \o Words(<<"and", big_count, "longer">>)
                 \o <<Sp, "(">> \o DistanceToString(big) \o <<")", Sp>>
                 \o Words(<<name, "bond",
                            Plural("length", (small + big) \div 20000)>>)
                 \o <<".">>)
         [] category = "Spread" ->
              Ok(Words(<<"There", "are", "a", "spread", "of", name, "bond",
                         "distances", "ranging", "from">>) \o <<Sp>>
                 \o DistanceRangeToString(small, big) \o <<".">>)
         [] OTHER -> Raised

\* whether a bond group is told as "equivalent" atoms
OneInequivGroup(bond_data) ==
    bond_data.has_groups /\ Len(bond_data.inequiv_groups) = 1

\* the element label as the site's text shows it
ShownElement(label) ==
    IF ~cfg.describe_oxidation_state THEN GetEl(label) ELSE label

\* _get_single_element_bonding_description(element, nn_data, describe_bond_lengths)
SingleElementBondingDescription(element, nn_data, describe_bond_lengths) ==
    LET bond_element == ShownElement(nn_data[1].el)
        bond_data == nn_data[1].data
        atoms == IF bond_data.n_sites = 1
                 THEN Words(<<"one", bond_element, "atom">>) \o <<".", Sp>>
                 ELSE Words(<<NumberToWords(bond_data.n_sites)>>
                            \o (IF OneInequivGroup(bond_data)
                                THEN <<"equivalent">> ELSE <<>>)
                            \o <<bond_element, "atoms">>) \o <<".">>
    IN IF describe_bond_lengths
       THEN Then(Ok(atoms \o <<Sp>>),
                 BondLengthDescription(element, bond_element, bond_data))
       ELSE Ok(atoms)

\* one pass of the second loop of _get_multi_element_bonding_description
\* over nn_data[i..]; intro_used: whether an "Of these, the" was written
RECURSIVE MultiElementQualifiers(_, _, _, _, _)
MultiElementQualifiers(element, nn_data, describe_bond_lengths, i, intro_used) ==
    IF i > Len(nn_data) THEN Ok(<<>>)
    ELSE LET bond_element == ShownElement(nn_data[i].el)
             bond_data == nn_data[i].data
             described == OneInequivGroup(bond_data) /\ bond_data.n_sites > 1
             qualifies == ~described /\ bond_data.has_groups
                          /\ bond_data.n_sites > 1
             intro == IF ~intro_used THEN <<"Of", Sp, "these", ",", Sp, "the">>
                      ELSE <<"The">>
             qualifier ==
                 IF qualifies
                 THEN intro \o <<Sp>>
                      \o Words(<<bond_element, "atoms", "are", "found", "in",
                                 NumberToWords(Len(bond_data.inequiv_groups)),
                                 "distinct", "environments">>) \o <<".">>
                 ELSE <<>>
             lengths ==
                 IF describe_bond_lengths
                 THEN Then(Ok(<<Sp>>),
                           BondLengthDescription(element, bond_element,
                                                 bond_data))
                 ELSE Ok(<<>>)
         IN Then(Then(Ok(qualifier), lengths),
                 MultiElementQualifiers(element, nn_data,
                                        describe_bond_lengths, i + 1,
                                        intro_used \/ qualifies))

\* _get_multi_element_bonding_description(element, nn_data, describe_bond_lengths)
MultiElementBondingDescription(element, nn_data, describe_bond_lengths) ==
    LET bonding_atoms ==
            [i \in DOMAIN nn_data |->
                Words(<<NumberToWords(nn_data[i].data.n_sites)>>
                      \o (IF OneInequivGroup(nn_data[i].data)
                             /\ nn_data[i].data.n_sites > 1
                          THEN <<"equivalent">> ELSE <<>>)
                      \o <<ShownElement(nn_data[i].el)>>)]
    IN Then(Ok(JoinList(bonding_atoms) \o <<Sp, "atoms", ".">>),
            MultiElementQualifiers(element, nn_data, describe_bond_lengths,
                                   1, FALSE))

\* the geometry phrase of a site under a tolerance
GeometryDesc(geometry, distorted_tol) ==
    (IF geometry.likeness > distorted_tol THEN <<>> ELSE <<"distorted", Sp>>)
    \o <<geometry.type>>

\* _get_site_description(element, geometry, nn_data, distorted_tol,
\* describe_bond_lengths)
SiteDescription(element, geometry, nn_data, distorted_tol, describe_bond_lengths) ==
    LET shown == ShownElement(element)
        desc == Words(<<shown, "is", "bonded", "in">>) \o <<Sp>>
                \o IndefiniteArticle(GeometryDesc(geometry, distorted_tol))
                \o <<Sp, "geometry", Sp, "to", Sp>>
    IN IF Len(nn_data) = 1
       THEN Then(Ok(desc), SingleElementBondingDescription(
                               shown, nn_data, describe_bond_lengths))
       ELSE Then(Ok(desc), MultiElementBondingDescription(
                               shown, nn_data, describe_bond_lengths))

\* the polyhedra filter of both polyhedra helpers
PassesCationFilter(site) ==
    ~cfg.only_describe_cation_polyhedra_connectivity \/ HasPlus(site.element)

\* _component_contains_connected_polyhedra(component)
ComponentContainsConnectedPolyhedra(component) ==
    \E i \in DOMAIN component.sites :
        PassesCationFilter(component.sites[i]) /\ component.sites[i].has_poly

\* _filter_connected_polyhedra(component): the indices of conn and of other
ConnSites(component) ==
    SelectRows(component.sites,
               {i \in DOMAIN component.sites :
                  component.sites[i].has_poly
                  /\ PassesCationFilter(component.sites[i])})

OtherSites(component) ==
    SelectRows(component.sites,
               {i \in DOMAIN component.sites :
                  \/ ~component.sites[i].has_poly
                  \/ ~(cfg.only_describe_cation_polyhedra_connectivity
                       /\ HasPlus(component.sites[i].element))})

\* the connectivities list the connected-polyhedra describer collects for
\* one site: the keys of every nnn_data entry, once per connected geometry
\* found among them
SiteConnectivities(site) ==
    Flatten([e \in DOMAIN site.nnn_data |->
               Flatten([g \in DOMAIN connected_geometries |->
                          IF connected_geometries[g] \in Range(site.nnn_data[e])
                          THEN site.nnn_data[e] ELSE <<>>])])

\* _get_connected_polyhedral_sites_description(connected_sites): with no
\* connectivity to tell it returns en.join([]); with any, unpacking a key of
\* geometry_data into (connectivities_str, formulas) raises
ConnectedPolyhedralSitesDescription(connected_sites) ==
    IF \E g \in DOMAIN connected_geometries, i \in DOMAIN connected_sites :
          /\ connected_sites[i].geometry.type = connected_geometries[g]
          /\ SiteConnectivities(connected_sites[i]) # <<>>
    THEN Raised
    ELSE Ok(<<>>)

\* " ".join(parts) over outcomes: the first part that raises ends the call
RECURSIVE JoinOutcomes(_)
JoinOutcomes(parts) ==
    CASE Len(parts) = 0 -> Ok(<<>>)
      [] Len(parts) = 1 -> parts[1]
      [] OTHER -> Then(Then(Head(parts), Ok(<<Sp>>)), JoinOutcomes(Tail(parts)))

\* one _get_site_description call of _get_component_description, as it is
\* written there: the tolerance is not passed, so the default applies
DescribeSiteOfComponent(site, leaf, inequiv) ==
    LET r == SiteDescription(site.element, site.geometry, site.nn_data,
                             DefaultDistortedTol, TRUE)
    IN [raised |-> r.raised, text |-> r.text,
        calls |-> <<[leaf |-> leaf, inequiv |-> inequiv, site |-> site,
                     raised |-> r.raised, text |-> r.text]>>]

\* _get_component_description(component); leaf and inequiv say which
\* component it is (inequiv = 0: the leaf itself)
ComponentDescription(component, leaf, inequiv) ==
    LET conn_sites == ConnSites(component)
        other_sites == OtherSites(component)
        conn == IF conn_sites # <<>>
                THEN <<ConnectedPolyhedralSitesDescription(conn_sites)>>
                ELSE <<>>
    IN JoinOutcomes(conn \o [i \in DOMAIN other_sites |->
                               DescribeSiteOfComponent(other_sites[i], leaf,
                                                       inequiv)])

\* the text of one inequivalent component in the enumerated form
RECURSIVE EnumeratedComponents(_, _, _)
EnumeratedComponents(leafrec, leaf, i) ==
    IF i > Len(leafrec.comp.inequiv_components) THEN Ok(<<>>)
    ELSE LET inequiv_comp == leafrec.comp.inequiv_components[i]
             count == NumberToWords(inequiv_comp.count)
             shape == Plural(dimensionality_to_shape(leafrec.comp_dimen), 2)
             lead == IF ComponentContainsConnectedPolyhedra(inequiv_comp)
                     THEN Words(<<Capitalize(count), "of", "the",
                                  leafrec.formula, shape>>)
                     ELSE Words(<<"In", count, "of", "the", leafrec.formula,
                                  shape>>) \o <<",", Sp>>
         IN Then(Then(Ok(lead), ComponentDescription(inequiv_comp, leaf, i)),
                 EnumeratedComponents(leafrec, leaf, i + 1))

\* the comp_desc of one leaf in the several-components branch
LeafDescription(leafrec, leaf) ==
    IF Len(leafrec.comp.inequiv_components) = 1
    THEN LET inequiv_comp == leafrec.comp.inequiv_components[1]
             prefix == IF inequiv_comp.count = 1 THEN "the" ELSE "each"
             shape == dimensionality_to_shape(leafrec.comp_dimen)
             lead == IF ComponentContainsConnectedPolyhedra(inequiv_comp)
                     THEN Words(<<Capitalize(prefix), leafrec.formula, shape,
                                  "contains">>) \o <<Sp>>
                     ELSE Words(<<"In", prefix, leafrec.formula, shape>>)
                          \o <<",", Sp>>
         IN Then(Ok(lead), ComponentDescription(inequiv_comp, leaf, 1))
    ELSE EnumeratedComponents(leafrec, leaf, 1)

\* _get_component_descriptions(component_data, n_components)
ComponentDescriptions(component_data, n_components) ==
    IF n_components = 1
    THEN LET comp == component_data[1].comp
         IN Then(Ok(IF ComponentContainsConnectedPolyhedra(comp)
                    THEN Words(<<"The", "structure", "contains">>) \o <<Sp>>
                    ELSE <<>>),
                 ComponentDescription(comp, 1, 0))
    ELSE LET described == {i \in DOMAIN component_data :
                             ~component_data[i].comp.has_molecule_name}
             leaves == SelectRows([i \in DOMAIN component_data |-> i],
                                  described)
         IN JoinOutcomes([k \in DOMAIN leaves |->
                            LeafDescription(component_data[leaves[k]],
                                            leaves[k])])

\* describe(condensed_structure) with the dimensionality sentence appended
\* before the mineral sentence
DescribeDimensionalityFirst(condensed_structure) ==
    JoinOutcomes(
        (IF cfg.describe_component_dimensionality
         THEN <<Ok(DimensionalityDescription(
                       condensed_structure.dimensionality,
                       condensed_structure.components,
                       condensed_structure.n_components))>>
         ELSE <<>>)
        \o (IF cfg.describe_mineral
            THEN <<Ok(MineralDescription(condensed_structure.mineral,
                                         condensed_structure.formula,
                                         condensed_structure.spg_symbol,
                                         condensed_structure.crystal_system))>>
            ELSE <<>>)
        \o (IF cfg.describe_components
            THEN <<ComponentDescriptions(condensed_structure.components,
                                         condensed_structure.n_components)>>
            ELSE <<>>))


\* describe(condensed_structure)
Describe(condensed_structure) ==
    JoinOutcomes(
        (IF cfg.describe_mineral
         THEN <<Ok(MineralDescription(condensed_structure.mineral,
                                      condensed_structure.formula,
                                      condensed_structure.spg_symbol,
                                      condensed_structure.crystal_system))>>
         ELSE <<>>)
        \o (IF cfg.describe_component_dimensionality
            THEN <<Ok(DimensionalityDescription(
                          condensed_structure.dimensionality,
                          condensed_structure.components,
                          condensed_structure.n_components))>>
            ELSE <<>>)
        \o (IF cfg.describe_components
            THEN <<ComponentDescriptions(condensed_structure.components,
                                         condensed_structure.n_components)>>
            ELSE <<>>))

(***************************************************************************)
(* The inputs the model draws from.                                        *)
(***************************************************************************)
\* Describer(...): every setting of the five switches, and a tolerance
\* below, at and above the default
Configs ==
    [distorted_tol : {3, 6, 9},
     describe_mineral : BOOLEAN,
     describe_component_dimensionality : BOOLEAN,
     describe_components : BOOLEAN,
     describe_oxidation_state : BOOLEAN,
     only_describe_cation_polyhedra_connectivity : BOOLEAN]

\* Describer()
DefaultConfig ==
    [distorted_tol |-> DefaultDistortedTol,
     describe_mineral |-> TRUE,
     describe_component_dimensionality |-> TRUE,
     describe_components |-> TRUE,
     describe_oxidation_state |-> TRUE,
     only_describe_cation_polyhedra_connectivity |-> FALSE]

\* a bond group given by its inequivalent groups
GroupedBond(groups) ==
    [n_sites |-> IF Len(groups) = 1 THEN groups[1].n_sites
                 ELSE groups[1].n_sites + groups[2].n_sites,
     has_groups |-> TRUE, inequiv_groups |-> groups,
     has_dists |-> FALSE, dists |-> <<>>]

\* a bond group of merged sites: a flat distance list
MergedBond(n_sites, dists) ==
    [n_sites |-> n_sites, has_groups |-> FALSE, inequiv_groups |-> <<>>,
     has_dists |-> TRUE, dists |-> dists]

BondDatas ==
    { GroupedBond(<<[n_sites |-> 1, dists |-> <<20000>>]>>),
      GroupedBond(<<[n_sites |-> 2, dists |-> <<20000, 20000>>]>>),
      GroupedBond(<<[n_sites |-> 1, dists |-> <<20000>>],
                    [n_sites |-> 2, dists |-> <<21000, 21000>>]>>),
      MergedBond(2, <<19000, 20000, 21000>>),
      MergedBond(2, <<>>) }

NeighbourEls == <<"O2-", "F-", "Cl-", "S2-">>

\* nearest-neighbour censuses of 0..MaxNeighbours elements
NNDatas ==
    UNION { { [i \in 1..n |-> [el |-> NeighbourEls[i], data |-> f[i]]] :
                f \in [1..n -> BondDatas] } : n \in 0..MaxNeighbours }

PlainSite(type, likeness, nn_data) ==
    [element |-> "Mg2+", geometry |-> [type |-> type, likeness |-> likeness],
     nn_data |-> nn_data, nnn_data |-> <<>>, has_poly |-> FALSE,
     polyhedra_formula |-> NoneValue]

\* sites without polyhedra, over every census
CensusSites ==
    { PlainSite(t, l, nn) : t \in {"octahedral", "tetrahedral"},
                            l \in {5, 7}, nn \in NNDatas }

SimpleCensus ==
    <<[el |-> "O2-",
       data |-> GroupedBond(<<[n_sites |-> 2, dists |-> <<20000, 20000>>]>>)]>>

\* sites with and without polyhedra, on a cation and on an anion
PolyhedraSites ==
    { [element |-> e, geometry |-> [type |-> "octahedral", likeness |-> 7],
       nn_data |-> SimpleCensus, nnn_data |-> k.nnn, has_poly |-> k.poly,
       polyhedra_formula |-> IF k.poly THEN "MgO6" ELSE NoneValue] :
        e \in {"Mg2+", "O2-"},
        k \in { [poly |-> FALSE, nnn |-> <<>>],
                [poly |-> TRUE, nnn |-> <<>>],
                [poly |-> TRUE, nnn |-> <<<<"octahedral", "corner-sharing">>>>] } }

OrientationOf(i) ==
    CASE i = 1 -> "(001)" [] i = 2 -> "(010)" [] OTHER -> "(100)"

\* a leaf of the components mapping: n inequivalent components, the i-th
\* with count i, each of the one site
Leaf(dimen, molecule, n, site) ==
    [comp_dimen |-> dimen,
     formula |-> IF dimen = 0 THEN "H2O" ELSE "MgO2",
     comp |-> [count |-> n,
               has_molecule_name |-> molecule,
               molecule_name |-> IF molecule THEN "water" ELSE NoneValue,
               inequiv_components |->
                   [i \in 1..n |-> [count |-> i,
                                    orientation |-> OrientationOf(i),
                                    sites |-> <<site>>]],
               sites |-> <<site>>]]

Leaves(dimen) ==
    { Leaf(dimen, m, n, s) : m \in BOOLEAN, n \in 1..MaxInequiv,
                             s \in PolyhedraSites }

NoMineral == [type |-> NoneValue, distance |-> DefaultDistance,
              n_species_type_match |-> TRUE]

MineralDatas ==
    {NoMineral} \cup
    [type : {"M1"}, distance : {ExactMatchDistance, 0, 3},
     n_species_type_match : BOOLEAN]

Condensed(mineral, dimensionality, components) ==
    [mineral |-> mineral, formula |-> "MgO", spg_symbol |-> "Fm-3m",
     crystal_system |-> "cubic", dimensionality |-> dimensionality,
     components |-> components, n_components |-> Len(components)]

\* one framework of one site
SiteStructures ==
    { Condensed(NoMineral, 3, <<Leaf(3, FALSE, 1, s)>>) : s \in CensusSites }

\* one component, or a cluster beside a sheet
ComponentStructures ==
    { Condensed(NoMineral, 2, <<l>>) : l \in Leaves(0) \cup Leaves(2) }
    \cup { Condensed(NoMineral, 2, <<a, b>>) :
             a \in { Leaf(0, m, 1, s) :
                       m \in BOOLEAN,
                       s \in { t \in PolyhedraSites :
                                 t.element = "Mg2+" /\ t.nnn_data = <<>> } },
             b \in Leaves(2) }

\* every mineral match and dimensionality over one simple framework
MineralStructures ==
    { Condensed(m, d, <<Leaf(3, FALSE, 1,
                             PlainSite("octahedral", 7, SimpleCensus))>>) :
        m \in MineralDatas, d \in 0..3 }

NoInput == Condensed(NoMineral, 0, <<>>)
NoOutput == [called |-> FALSE, raised |-> FALSE, text |-> <<>>, calls |-> <<>>]

\* bond lengths around 1 Angstrom, within and across a third decimal, and
\* at 2 and 3 Angstrom
BondLengths == {9996, 10000, 10004, 10006, 10010, 10020, 20000, 30000}

RECURSIVE SeqsUpTo(_, _)
\* the sequences over S of length 1..n
SeqsUpTo(S, n) ==
    IF n = 0 THEN {}
    ELSE { <<x>> : x \in S }
         \cup { Append(t, x) : t \in SeqsUpTo(S, n - 1), x \in S }

\* the bond groups of a distance list: merged, one group, or split in two
BondInputs ==
    LET lists == SeqsUpTo(BondLengths, MaxDists)
    IN { MergedBond(1, d) : d \in lists }
       \cup { GroupedBond(<<[n_sites |-> Len(d), dists |-> d]>>) : d \in lists }
       \cup { GroupedBond(<<[n_sites |-> 1, dists |-> <<Head(d)>>],
                            [n_sites |-> Len(d) - 1, dists |-> Tail(d)]>>) :
                d \in { l \in lists : Len(l) >= 2 } }

NoBondInput == MergedBond(0, <<>>)
NoBondOutput == [called |-> FALSE, raised |-> FALSE, text |-> <<>>, calls |-> <<>>]

\* a describer and the structure it is given: every census under every
\* tolerance, every component layout under every switch, every mineral
\* match under every configuration
DescriberInputs ==
    { <<c, s>> : c \in { k \in Configs :
                           /\ k.describe_mineral
                           /\ k.describe_component_dimensionality
                           /\ k.describe_components
                           /\ ~k.only_describe_cation_polyhedra_connectivity },
                 s \in SiteStructures }
    \cup { <<c, s>> : c \in { k \in Configs :
                                k.distorted_tol = DefaultDistortedTol },
                      s \in ComponentStructures }
    \cup { <<c, s>> : c \in Configs, s \in MineralStructures }

\* a Python bool where a number is read: True is 1.0 and False is 0.0, in
\* the tenths that likeness is counted in
BoolAsNumber(b) == IF b = "True" THEN 10 ELSE 0

\* FeaturizerAdapter.contains_geometry_type(geometry, distorted) over the
\* adapter's sites; distorted is "None", "True" or "False"
ContainsGeometryType(sites, geometry, distorted) ==
    IF distorted = NoneValue
    THEN \E i \in DOMAIN sites : sites[i].geometry.type = geometry
    ELSE IF distorted = "True"
    THEN \E i \in DOMAIN sites :
             /\ sites[i].geometry.type = geometry
             /\ sites[i].geometry.likeness < BoolAsNumber(distorted)
    ELSE \E i \in DOMAIN sites :
             /\ sites[i].geometry.type = geometry
             /\ sites[i].geometry.likeness > BoolAsNumber(distorted)

\* the geometries of the adapter's sites: a type and a likeness in tenths
AdapterGeometries ==
    [type : {"octahedral", "tetrahedral"}, likeness : {1, 5, 9}]

\* the adapter's sites, as far as contains_geometry_type reads them
AdapterSites ==
    {<<>>} \cup UNION { [1..n -> [geometry : AdapterGeometries]] :
                          n \in 1..MaxAdapterSites }

AdapterInputs ==
    [sites : AdapterSites,
     geometry : {"octahedral", "tetrahedral"},
     distorted : {NoneValue, "True", "False"}]

NoAdapterInput == [sites |-> <<>>, geometry |-> NoneValue, distorted |-> NoneValue]
NoAdapterOutput == [called |-> FALSE, result |-> FALSE]


\* structures for a matcher asked more than once: the first row near, the
\* second at any distance, the others at the cutoff
CacheStructures ==
    { s \in Structures :
        /\ s.dist[1] = 2
        /\ \A i \in MineralRows : i > 2 => s.dist[i] = DistanceCutoff }

CacheQueries == [structure : CacheStructures, fits : {{}, {"M1"}}]


\* the structures the matcher is asked about, each with the set of
\* prototypes the structure matcher fits to it
Queries == [structure : Structures, fits : SUBSET MineralNames]

NoQuery == [structure |-> NoStructure, fits |-> {}]

(***************************************************************************)
(* The operations.                                                         *)
(***************************************************************************)
InitMatcherFields ==
    /\ structure_ = NoStructure
    /\ mineral_db_ = <<>>
    /\ matches = NoMatches
    /\ best = NoBest
    /\ ret = NoReturn

\* a new matcher, a default describer, and a structure to match
InitMatcher ==
    /\ InitMatcherFields
    /\ query \in Queries
    /\ cfg = DefaultConfig
    /\ hash_seed = 0
    /\ cs = NoInput
    /\ out = NoOutput
    /\ bond_in = NoBondInput
    /\ bond_out = NoBondOutput
    /\ adapter_in = NoAdapterInput
    /\ adapter_out = NoAdapterOutput

\* a new matcher that has not been asked anything
InitCache ==
    /\ InitMatcherFields
    /\ query = NoQuery
    /\ cfg = DefaultConfig
    /\ hash_seed = 0
    /\ cs = NoInput
    /\ out = NoOutput
    /\ bond_in = NoBondInput
    /\ bond_out = NoBondOutput
    /\ adapter_in = NoAdapterInput
    /\ adapter_out = NoAdapterOutput


\* a describer of some configuration and a condensed structure to describe
InitDescriber ==
    /\ InitMatcherFields
    /\ query = NoQuery
    /\ \E input \in DescriberInputs : cfg = input[1] /\ cs = input[2]
    /\ hash_seed \in {0, 1}
    /\ out = NoOutput
    /\ bond_in = NoBondInput
    /\ bond_out = NoBondOutput
    /\ adapter_in = NoAdapterInput
    /\ adapter_out = NoAdapterOutput

\* a bond group to describe
InitBond ==
    /\ InitMatcherFields
    /\ query = NoQuery
    /\ cfg = DefaultConfig
    /\ hash_seed = 0
    /\ cs = NoInput
    /\ out = NoOutput
    /\ bond_in \in BondInputs
    /\ bond_out = NoBondOutput
    /\ adapter_in = NoAdapterInput
    /\ adapter_out = NoAdapterOutput

\* describe(condensed_structure)
DescribeCall(condensed_structure) ==
    LET r == Describe(condensed_structure)
    IN /\ cs' = condensed_structure
       /\ out' = [called |-> TRUE, raised |-> r.raised, text |-> r.text,
                  calls |-> r.calls]
       /\ UNCHANGED <<cfg, hash_seed, matcherVars, bondVars, adapterVars>>

\* the condensed structure the condenser builds around a mineral match: the
\* matcher's answer, its name under the key 'type'
CondensedForMatch(match) ==
    Condensed([type |-> match.mineral, distance |-> match.distance,
               n_species_type_match |-> match.n_species_type_match],
              3,
              <<Leaf(3, FALSE, 1, PlainSite("octahedral", 7, SimpleCensus))>>)

\* describe() of the structure whose match get_best_mineral_name just gave
DescribeMatched ==
    /\ best.tier # "not called"
    /\ DescribeCall(CondensedForMatch(best))

\* _get_bond_length_description("Mg2+", "O2-", bond_data)
BondLengthCall ==
    /\ bond_out' = [called |-> TRUE] @@
                   BondLengthDescription("Mg2+", "O2-", bond_in)
    /\ UNCHANGED <<bond_in, matcherVars, describerVars, adapterVars>>

\* a new adapter over some sites and a question to ask it
InitAdapter ==
    /\ InitMatcherFields
    /\ query = NoQuery
    /\ cfg = DefaultConfig
    /\ hash_seed = 0
    /\ cs = NoInput
    /\ out = NoOutput
    /\ bond_in = NoBondInput
    /\ bond_out = NoBondOutput
    /\ adapter_in \in AdapterInputs
    /\ adapter_out = NoAdapterOutput

\* contains_geometry_type(geometry, distorted)
ContainsGeometryTypeCall ==
    /\ adapter_out' = [called |-> TRUE,
                       result |-> ContainsGeometryType(adapter_in.sites,
                                                       adapter_in.geometry,
                                                       adapter_in.distorted)]
    /\ UNCHANGED <<adapter_in, matcherVars, describerVars, bondVars>>


NextMatcher ==
    \/ GetBestMineralName(query.structure, query.fits) /\ UNCHANGED query
    \/ DescribeMatched

\* any call of the matcher's three public methods, with any structure
NextCache ==
    \/ \E q \in CacheQueries :
          query' = q /\ GetBestMineralName(q.structure, q.fits)
    \/ \E q \in CacheQueries :
          query' = q /\ GetAflowMatches(q.structure, q.fits)
    \/ \E q \in CacheQueries, match_n_sp \in BOOLEAN :
          query' = q /\ GetFingerprintMatches(q.structure, match_n_sp)

NextDescriber == DescribeCall(cs)

NextBond == BondLengthCall

NextAdapter == ContainsGeometryTypeCall

\* the matcher, and the default describer on what it matched
SpecMatcher == InitMatcher /\ [][NextMatcher]_vars

\* one matcher asked again and again, about one structure after another
SpecCache == InitCache /\ [][NextCache]_vars

\* a describer of any configuration
SpecDescriber == InitDescriber /\ [][NextDescriber]_vars

\* the bond-length classifier alone
SpecBond == InitBond /\ [][NextBond]_vars

\* the adapter answers a question about its sites
SpecAdapter == InitAdapter /\ [][NextAdapter]_vars

(***************************************************************************)
(* Properties.                                                             *)
(***************************************************************************)
\* the token of the first sentence that holds the mineral name
MineralNameToken(text) == text[5]

\* the sentence form a bond-length text has
SentenceForm(text) ==
    CASE text = <<>> -> "none"
      [] Head(text) = "The" -> "Single"
      [] Head(text) \in {"Both", "All"} -> "Uniform"
      [] Head(text) = "In" -> "Bimodal"
      [] Head(text) = "There" -> "Spread"
      [] OTHER -> "other"

\* C1: when the prototype (AFLOW) list is not empty, get_best_mineral_name
\* returns its first entry as an exact match (distance -1, species-type
\* count matching) and describe() shows the bare prototype name, with
\* neither "-like" nor "-derived".
C1_PrototypeMatchIsExact ==
    (out.called /\ matches.aflow_matches # <<>>) =>
        /\ best.mineral = matches.aflow_matches[1].mineral
        /\ best.distance = ExactMatchDistance
        /\ best.n_species_type_match
        /\ MineralNameToken(out.text) = best.mineral

\* C2: get_best_mineral_name takes exactly one tier, the first of
\* prototype, constrained fingerprint, unconstrained fingerprint whose list
\* is not empty, and no name when all three are empty; what it returns is
\* that tier's first entry.
C2_TierIsFirstNonEmpty ==
    best.tier # "not called" =>
        LET a == matches.aflow_matches
            f == matches.fingerprint_matches
            d == matches.fingerprint_derived
        IN /\ best.tier = (IF a # <<>> THEN "prototype"
                           ELSE IF f # <<>> THEN "fingerprint"
                           ELSE IF d # <<>> THEN "derived"
                           ELSE "none")
           /\ best.tier = "prototype" => best.mineral = a[1].mineral
           /\ best.tier = "fingerprint" =>
                 best.mineral = f[1].mineral /\ best.n_species_type_match
           /\ best.tier = "derived" =>
                 best.mineral = d[1].mineral /\ ~best.n_species_type_match
           /\ best.tier = "none" <=> best.mineral = NoneValue

\* a call took the unconstrained-fingerprint tier past two empty lists
C2_Witness ==
    /\ best.tier = "derived"
    /\ matches.aflow_matches = <<>>
    /\ matches.fingerprint_matches = <<>>
    /\ Len(matches.fingerprint_derived) >= 2

\* the rows of the database within the cutoff of the structure, all of
\* them or those of its number of species types
RowsWithinCutoff(structure, same_ntypesp) ==
    {i \in MineralRows :
        /\ structure.dist[i] < DistanceCutoff
        /\ same_ntypesp => mineral_db[i].ntypesp = structure.ntypesp}

\* the match is a row of rows, at the least distance among rows
IsNearestOf(match, structure, rows) ==
    /\ \E i \in rows : /\ mineral_db[i].mineral = match.mineral
                       /\ structure.dist[i] = match.distance
    /\ \A i \in rows : match.distance <= structure.dist[i]

\* C3: with no prototype match, a non-empty constrained fingerprint list
\* gives its nearest entry, n_species_type_match true and the suffix
\* "-like"; else a non-empty unconstrained list gives its nearest entry,
\* n_species_type_match false and the suffix "-derived".
C3_FingerprintTiers ==
    (out.called /\ matches.aflow_matches = <<>>) =>
        LET s == matches.structure
            constrained == RowsWithinCutoff(s, TRUE)
            unconstrained == RowsWithinCutoff(s, FALSE)
        IN IF constrained # {}
           THEN /\ IsNearestOf(best, s, constrained)
                /\ best.n_species_type_match
                /\ MineralNameToken(out.text) = best.mineral \o "-like"
           ELSE unconstrained # {} =>
                /\ IsNearestOf(best, s, unconstrained)
                /\ ~best.n_species_type_match
                /\ MineralNameToken(out.text) = best.mineral \o "-derived"

\* a "-like" name was written for the nearer of two constrained matches
C3_Witness ==
    /\ out.called
    /\ matches.aflow_matches = <<>>
    /\ Len(matches.fingerprint_matches) >= 2
    /\ matches.fingerprint_matches[1].distance
         < matches.fingerprint_matches[2].distance
    /\ MineralNameToken(out.text) = best.mineral \o "-like"

C5_BondLengthPartition ==
    bond_out.called =>
        LET d == BondDists(bond_in)
            rounded == {Round3(d[i]) : i \in DOMAIN d}
        IN /\ ~bond_out.raised
           /\ SentenceForm(bond_out.text) =
                 (IF Len(d) = 1 THEN "Single"
                  ELSE IF Cardinality(rounded) = 1 THEN "Uniform"
                  ELSE IF Cardinality(rounded) = 2 THEN "Bimodal"
                  ELSE "Spread")

\* three different lengths were told as two groups
C5_Witness ==
    /\ bond_out.called
    /\ Cardinality(Range(BondDists(bond_in))) = 3
    /\ SentenceForm(bond_out.text) = "Bimodal"

\* the lengths of d share their first three decimals
AgreeToThreeDecimals(d) ==
    \A i, j \in DOMAIN d : TruncateTo(d[i], 10) = TruncateTo(d[j], 10)

\* the lengths of d all lie within half a thousandth of one thousandth
NearOneThousandth(d) ==
    \E k \in {d[1] \div 10, d[1] \div 10 + 1} :
        \A i \in DOMAIN d : 2 * d[i] > 20 * k - 10 /\ 2 * d[i] < 20 * k + 10

\* C6 as stated: a list whose values agree in their first three decimals
\* is never told as Bimodal or Spread.
C6_AgreeingDecimalsMerge ==
    (bond_out.called /\ AgreeToThreeDecimals(BondDists(bond_in))) =>
        SentenceForm(bond_out.text) \in {"Single", "Uniform"}

\* C6 as amended: a list whose values all round to the same 3-decimal
\* value (all within half a thousandth of it) is told as Single or
\* Uniform, Uniform when it has two or more values.
C6_SameRoundedValueMerges ==
    (bond_out.called /\ NearOneThousandth(BondDists(bond_in))) =>
        SentenceForm(bond_out.text) =
            (IF Len(BondDists(bond_in)) = 1 THEN "Single" ELSE "Uniform")

\* two lengths with different third decimals were told as one
C6_Witness ==
    /\ bond_out.called
    /\ ~AgreeToThreeDecimals(BondDists(bond_in))
    /\ NearOneThousandth(BondDists(bond_in))
    /\ SentenceForm(bond_out.text) = "Uniform"

\* C7: no _get_site_description call is made for a component that has a
\* molecule name, in a structure of one component or of several.
C7_MoleculeSitesNeverDescribed ==
    out.called =>
        \A k \in DOMAIN out.calls :
            ~cs.components[out.calls[k].leaf].comp.has_molecule_name

\* C8: under describe(), a site's geometry is told as "distorted" exactly
\* when its likeness is at most the describer's configured distorted_tol.
C8_ConfiguredToleranceDecides ==
    out.called =>
        \A k \in DOMAIN out.calls :
            ~out.calls[k].raised =>
                ("distorted" \in Range(out.calls[k].text)
                 <=> out.calls[k].site.geometry.likeness <= cfg.distorted_tol)

\* C10: in the text of describe() for one framework of one site, no blank
\* leads, trails or follows another blank, and every period but the last
\* is followed by a blank.
C10_SingleSpaces ==
    (out.called /\ ~out.raised /\ cs \in SiteStructures) =>
        LET t == out.text
        IN t # <<>> =>
             /\ t[1] # Sp
             /\ t[Len(t)] # Sp
             /\ \A i \in 1..(Len(t) - 1) :
                   /\ t[i] = Sp => t[i + 1] # Sp
                   /\ t[i] = "." => t[i + 1] = Sp

\* the first place of text that holds a token of S (0: none)
FirstOf(text, S) ==
    IF \E i \in DOMAIN text : text[i] \in S
    THEN CHOOSE i \in DOMAIN text :
             text[i] \in S /\ \A j \in 1..(i - 1) : text[j] \notin S
    ELSE 0

\* the token of each section that no other section writes
DimensionalTokens == {NumberToWords(d) \o "-dimensional" : d \in 0..3}

\* a section's text, followed by a blank when more text follows
Section(enabled, section_text, more) ==
    IF enabled THEN section_text \o (IF more THEN <<Sp>> ELSE <<>>) ELSE <<>>

SiteLabels(site) ==
    {site.element} \cup {site.nn_data[i].el : i \in DOMAIN site.nn_data}

\* the bond names of a site, from labels as supplied or from bare elements
SuppliedBondNames(site) ==
    {site.element \o "-" \o site.nn_data[i].el : i \in DOMAIN site.nn_data}

BareBondNames(site) ==
    {GetEl(site.element) \o "-" \o GetEl(site.nn_data[i].el) :
        i \in DOMAIN site.nn_data}

\* C12: in a site's description the central element, every neighbour
\* element and every bond-length sentence show the bare element when
\* describe_oxidation_state is off, and the label as supplied when it is on.
C12_LabelsFollowFlag ==
    out.called =>
        \A k \in DOMAIN out.calls :
            LET call == out.calls[k]
                tokens == Range(call.text)
                supplied == SiteLabels(call.site)
                               \cup SuppliedBondNames(call.site)
                bare == {GetEl(l) : l \in SiteLabels(call.site)}
                           \cup BareBondNames(call.site)
            IN ~call.raised =>
                 IF cfg.describe_oxidation_state
                 THEN tokens \cap bare = {} /\ call.text[1] = call.site.element
                 ELSE tokens \cap supplied = {}
                      /\ call.text[1] = GetEl(call.site.element)

\* the sites of the adapter that have the geometry asked about
SitesOfGeometry ==
    {i \in DOMAIN adapter_in.sites :
        adapter_in.sites[i].geometry.type = adapter_in.geometry}

\* C13: contains_geometry_type takes distorted as a yes/no filter: None
\* asks for any site of the geometry; True answers false when the only site
\* of the geometry has likeness 0.9; False answers false when the only site
\* of the geometry has likeness 0.1.
C13_DistortedIsYesNoFilter ==
    adapter_out.called =>
        /\ adapter_in.distorted = NoneValue =>
              (adapter_out.result <=> SitesOfGeometry # {})
        /\ (/\ adapter_in.distorted = "True"
            /\ Cardinality(SitesOfGeometry) = 1
            /\ \A i \in SitesOfGeometry :
                  adapter_in.sites[i].geometry.likeness = 9)
              => ~adapter_out.result
        /\ (/\ adapter_in.distorted = "False"
            /\ Cardinality(SitesOfGeometry) = 1
            /\ \A i \in SitesOfGeometry :
                  adapter_in.sites[i].geometry.likeness = 1)
              => ~adapter_out.result

\* the token of text that stands k places after the first w
TokenFrom(text, w, k) == text[FirstOf(text, {w}) + k]

\* the rounded lengths of the bond group asked about, the least and the
\* greatest of them, and how many entries round to each
RoundedIn == {Round3(BondDists(bond_in)[i]) : i \in DOMAIN BondDists(bond_in)}
ShortestIn == CHOOSE x \in RoundedIn : \A y \in RoundedIn : x <= y
LongestIn == CHOOSE x \in RoundedIn : \A y \in RoundedIn : x >= y
ShortCountIn ==
    Cardinality({i \in DOMAIN BondDists(bond_in) :
                    Round3(BondDists(bond_in)[i]) = ShortestIn})
LongCountIn ==
    Cardinality({i \in DOMAIN BondDists(bond_in) :
                    Round3(BondDists(bond_in)[i]) = LongestIn})

\* the call told two groups of lengths
ToldBimodal == bond_out.called /\ SentenceForm(bond_out.text) = "Bimodal"

\* C14: the Bimodal sentence ends "bond length" exactly when there is one
\* shorter and one longer bond, and "bond lengths" otherwise, whatever the
\* distances are.
C14_NounFollowsCounts ==
    ToldBimodal =>
        LET noun == bond_out.text[Len(bond_out.text) - 1]
        IN /\ noun \in {"length", "lengths"}
           /\ noun = "length" <=> (ShortCountIn = 1 /\ LongCountIn = 1)

\* C15: for a list of exactly two distinct rounded values the Bimodal
\* sentence tells the smaller value as the shorter length and the larger as
\* the longer, each with the number of entries that round to it; the counts
\* sum to the length of the list and the verb is "is" iff the shorter count
\* is one.
C15_BimodalCountsAndLengths ==
    (bond_out.called /\ Cardinality(RoundedIn) = 2) =>
        /\ ToldBimodal
        /\ TokenFrom(bond_out.text, "shorter", -2) = NumberToWords(ShortCountIn)
        /\ TokenFrom(bond_out.text, "shorter", 3) = Format2(ShortestIn)
        /\ TokenFrom(bond_out.text, "longer", -2) = NumberToWords(LongCountIn)
        /\ TokenFrom(bond_out.text, "longer", 3) = Format2(LongestIn)
        /\ ShortCountIn + LongCountIn = Len(BondDists(bond_in))
        /\ TokenFrom(bond_out.text, "there", 2) = "is" <=> ShortCountIn = 1
        /\ TokenFrom(bond_out.text, "there", 2) \in {"is", "are"}

\* two shorter bonds and one longer one were told, with "are"
C15_Witness ==
    /\ ToldBimodal
    /\ ShortCountIn = 2 /\ LongCountIn = 1
    /\ ShortestIn = 10000 /\ LongestIn = 20000
    /\ TokenFrom(bond_out.text, "there", 2) = "are"
    /\ TokenFrom(bond_out.text, "shorter", 3) = "1.00"
    /\ TokenFrom(bond_out.text, "longer", 3) = "2.00"

\* C16: _filter_connected_polyhedra splits a component's sites into two
\* lists with no site in both and every site in one, under either value of
\* only_describe_cation_polyhedra_connectivity; a site handed to the
\* connected-polyhedra describer is not given to _get_site_description too.
C16_FilterPartitionsSites ==
    (out.called /\ cfg.describe_components) =>
        /\ \A leaf \in DOMAIN cs.components :
              LET component == cs.components[leaf].comp
                  conn == ConnSites(component)
                  other == OtherSites(component)
              IN /\ Len(conn) + Len(other) = Len(component.sites)
                 /\ Range(conn) \cap Range(other) = {}
                 /\ Range(conn) \cup Range(other) = Range(component.sites)
        /\ \A k \in DOMAIN out.calls :
              ~(out.calls[k].site.has_poly
                /\ PassesCationFilter(out.calls[k].site))

\* the components whose descriptions describe() asks for
DescribedComponents ==
    IF cs.n_components = 1 THEN {cs.components[1].comp}
    ELSE UNION { Range(cs.components[leaf].comp.inequiv_components) :
                   leaf \in {l \in DOMAIN cs.components :
                               ~cs.components[l].comp.has_molecule_name} }

\* a connected site of recognized geometry with a recognized connectivity
\* is among the sites given to the connected-polyhedra describer
ConnectivityToTell ==
    \E component \in DescribedComponents :
        \E i \in DOMAIN component.sites :
            LET site == component.sites[i]
            IN /\ site.has_poly /\ PassesCationFilter(site)
               /\ site.geometry.type \in Range(connected_geometries)
               /\ SiteConnectivities(site) # <<>>

\* C17: given connected sites of which one has a recognized connectivity,
\* the connected-polyhedra describer does not fail and its text has the
\* clause "{connectivity} {formulas} {polyhedra}" of that site.
C17_ConnectivityClauses ==
    (out.called /\ cfg.describe_components /\ ConnectivityToTell) =>
        /\ ~out.raised
        /\ \E i \in DOMAIN out.text : out.text[i] = "corner-sharing"

\* the site has nothing to describe: no neighbour at all, or a neighbour
\* element with no distance
EmptyCollection(site) ==
    \/ site.nn_data = <<>>
    \/ \E i \in DOMAIN site.nn_data : BondDists(site.nn_data[i].data) = <<>>

\* C18: describing a site whose neighbour census is empty, or one of whose
\* neighbour elements has an empty combined distance list, raises and
\* gives no text.
C18_EmptyCollectionsRaise ==
    out.called =>
        \A k \in DOMAIN out.calls :
            EmptyCollection(out.calls[k].site) =>
                out.calls[k].raised /\ out.calls[k].text = <<>>

\* the distance of structure to the row of the database named mineral
DistanceTo(structure, mineral) ==
    structure.dist[CHOOSE i \in MineralRows : mineral_db[i].mineral = mineral]

\* every entry of a returned list has the distance of its call's structure
ReadFromRanking(list, structure) ==
    \A i \in DOMAIN list :
        list[i].distance = DistanceTo(structure, list[i].mineral)

\* the cached ranking is the database with the distances of the structure
\* of the most recent call, in ascending order, and every list returned was
\* read from the ranking of its own call's structure
CacheCoherent ==
    query # NoQuery =>
        /\ structure_ = query.structure
        /\ mineral_db_ \in SortedTables(query.structure)
        /\ IsSortedByDistance(mineral_db_)
        /\ ReadFromRanking(matches.aflow_matches, matches.structure)
        /\ ReadFromRanking(matches.fingerprint_matches, matches.structure)
        /\ ReadFromRanking(matches.fingerprint_derived, matches.structure)
        /\ ReadFromRanking(ret.value, ret.structure)

\* a call with the structure of the call before it keeps the ranking as it is
SameStructureKeepsRanking ==
    (query # NoQuery /\ query'.structure = query.structure) =>
        mineral_db_' = mineral_db_ /\ structure_' = structure_

\* C19: after any sequence of get_best_mineral_name, get_aflow_matches and
\* get_fingerprint_matches calls, mineral_db_ is the database ranked by the
\* distances of the most recent call's structure and structure_ is that
\* structure; a call with the same structure as the one before does not rank
\* anew, and a call with another structure ranks anew before a list is read.
C19_CacheCoherence ==
    []CacheCoherent /\ [][SameStructureKeepsRanking]_vars

\* a second structure was asked about after a first, and its list returned
C19_Witness ==
    /\ query # NoQuery
    /\ ret.method = "get_fingerprint_matches"
    /\ matches.structure # NoStructure
    /\ matches.structure # ret.structure
    /\ structure_ = ret.structure
    /\ ret.value # <<>>

\* the number of species types of the row of the database named mineral
SpeciesTypesOf(mineral) ==
    mineral_db[CHOOSE i \in MineralRows : mineral_db[i].mineral = mineral].ntypesp

\* C20: a mineral returned by the unconstrained-fingerprint tier has a
\* number of species types other than the structure's, and a mineral
\* returned by either fingerprint tier is at a distance strictly below the
\* cutoff.
C20_DerivedTierDiffers ==
    /\ best.tier = "derived" =>
          /\ ~best.n_species_type_match
          /\ SpeciesTypesOf(best.mineral) # matches.structure.ntypesp
    /\ best.tier \in {"fingerprint", "derived"} =>
          /\ best.distance = DistanceTo(matches.structure, best.mineral)
          /\ best.distance < DistanceCutoff

\* the derived tier was taken while a row of the structure's own number of
\* species types lay at the cutoff
C20_Witness ==
    /\ best.tier = "derived"
    /\ \E i \in MineralRows :
          /\ mineral_db[i].ntypesp = matches.structure.ntypesp
          /\ matches.structure.dist[i] = DistanceCutoff

\* the hundredths of an Angstrom a bond length can be shown as: every
\* 2-decimal value from 0.00 to 4.00
ShownHundredths == 0..400

\* the number of hundredths that a 2-decimal string denotes
HundredthsOf(str) ==
    CHOOSE h \in ShownHundredths : Format2(h * 100) = str

\* C21: in every Bimodal sentence the 2-decimal string shown for the
\* shorter length denotes a strictly smaller value than the one shown for
\* the longer length, for every two distinct 3-decimal length classes.
C21_RenderedLengthsOrdered ==
    ToldBimodal =>
        HundredthsOf(TokenFrom(bond_out.text, "shorter", 3))
            < HundredthsOf(TokenFrom(bond_out.text, "longer", 3))

=============================================================================
